---- MODULE Spec2Model ----
(***************************************************************************)
(* Brandes-Koepf horizontal coordinate assignment of dagre                 *)
(* (src/src/position/bk.js), as a state machine.                           *)
(*                                                                         *)
(* The state is the input graph g (layering, edges, node labels, graph     *)
(* label), the position of positionX in its pipeline (pc) and the values   *)
(* of its local variables (conflicts, the root/align maps and block graph  *)
(* of the alignment under construction, xss, the smallest-width            *)
(* alignment) and what it returns.  The exported helper sep is a second    *)
(* operation of the module.                                                *)
(*                                                                         *)
(* Vertex ids are the integers 1..N (the source's ids are strings; the     *)
(* code compares ids only to store a conflict under the smaller one).      *)
(* Numbers are JavaScript doubles in the source.  Every input of the model *)
(* is an even integer, so that each half the code takes (width / 2,        *)
(* nodesep / 2) is an integer; the mean taken by balance is exact whenever *)
(* the two middle values have an even sum, which NumbersExact states.      *)
(***************************************************************************)
EXTENDS Integers, Sequences, FiniteSets, TLC

VARIABLES
    layering,       \* buildLayerMatrix(g): layering[r][i] is the vertex of rank r at order i-1
    edges,          \* the edges of g, a set of <<v, w>>
    node,           \* g.node(v): [width, dummy, labelpos, borderType]
    graph,          \* g.graph(): [nodesep, edgesep]
    pc,             \* where positionX stands
    conflicts,      \* positionX's conflicts: a set of <<min, max>> pairs
    cur,            \* the alignment being built: [root, align, blockG]
    done,           \* per finished alignment: [root, align, blockG, xs1, xs]
    xss,            \* positionX's xss: alignment key -> coordinate map
    smallestWidth,  \* the key of the map findSmallestWidthAlignment returned
    alignArg,       \* the align argument balance was called with
    result,         \* the map positionX returned
    sepOut          \* the last call of the exported sep: [reverseSep, v, w, value]

vars == <<layering, edges, node, graph, pc, conflicts, cur, done, xss,
          smallestWidth, alignArg, result, sepOut>>

(***************************************************************************)
(* Small helpers.                                                          *)
(***************************************************************************)
Max(S) == CHOOSE x \in S : \A y \in S : y <= x

Min(S) == CHOOSE x \in S : \A y \in S : x <= y

Range(f) == { f[x] : x \in DOMAIN f }

\* _.values(layer).reverse()
Reverse(s) == [i \in 1..Len(s) |-> s[Len(s) + 1 - i]]

\* n / 2 on the even numbers the model works with
Half(n) == n \div 2

\* String.prototype.toLowerCase on the strings the model uses
ToLowerCase(s) ==
    CASE s = "L" -> "l"
      [] s = "R" -> "r"
      [] s = "C" -> "c"
      [] s \in {"UL", "Ul", "uL"} -> "ul"
      [] s \in {"UR", "Ur", "uR"} -> "ur"
      [] s \in {"DL", "Dl", "dL"} -> "dl"
      [] s \in {"DR", "Dr", "dR"} -> "dr"
      [] OTHER -> s

(***************************************************************************)
(* The graph g.                                                            *)
(***************************************************************************)
Nodes == DOMAIN node

\* The value of an attribute that is absent (JavaScript's undefined)
Undefined == "undefined"

\* JavaScript truthiness of an attribute value (a string or absent)
Truthy(x) == x \notin {Undefined, ""}

\* g.node(v).dummy is truthy
IsDummy(v) == Truthy(node[v].dummy)

\* g.node(v).order: the position of v in its layer, from 0
Order(v) ==
    LET r == CHOOSE r \in 1..Len(layering) : \E i \in 1..Len(layering[r]) : layering[r][i] = v
    IN (CHOOSE i \in 1..Len(layering[r]) : layering[r][i] = v) - 1

\* The set S as a sequence in ascending id order: the order in which the
\* graph lists neighbours (the edges are inserted in ascending id order).
RECURSIVE SetToSeq(_)
SetToSeq(S) ==
    IF S = {} THEN <<>>
    ELSE LET m == Min(S) IN <<m>> \o SetToSeq(S \ {m})

predecessors(v) == SetToSeq({ e[1] : e \in { d \in edges : d[2] = v } })

successors(v) == SetToSeq({ e[2] : e \in { d \in edges : d[1] = v } })

(***************************************************************************)
(* Conflicts.                                                              *)
(***************************************************************************)
\* conflicts[v][w] with v the smaller id: the pair a conflict is stored under
ConflictKey(v, w) == IF v > w THEN <<w, v>> ELSE <<v, w>>

addConflict(cs, v, w) == cs \cup {ConflictKey(v, w)}

hasConflict(cs, v, w) == ConflictKey(v, w) \in cs

\* _.find(g.predecessors(v), dummy): <<>> is undefined
findOtherInnerSegmentNode(v) ==
    IF IsDummy(v)
    THEN LET ds == SelectSeq(predecessors(v), LAMBDA u : IsDummy(u))
         IN IF ds = <<>> THEN <<>> ELSE <<ds[1]>>
    ELSE <<>>

\* Type1Crosses without the test k1 < uPos: only the segments left of the
\* window are seen
Type1CrossesLeftOnly(u, scanNode, k0, k1) ==
    /\ Order(u) < k0
    /\ ~(IsDummy(u) /\ IsDummy(scanNode))

\* The test of lines 49-50 on an edge (u, scanNode)
Type1Crosses(u, scanNode, k0, k1) ==
    /\ (Order(u) < k0 \/ k1 < Order(u))
    /\ ~(IsDummy(u) /\ IsDummy(scanNode))

\* visitLayer of findType1Conflicts from index i of layer (from 1) on
RECURSIVE Type1VisitLayer(_, _, _, _, _, _)
Type1VisitLayer(prevLayer, layer, i, k0, scanPos, cs) ==
    IF i > Len(layer) THEN cs
    ELSE LET v == layer[i]
             w == findOtherInnerSegmentNode(v)
             k1 == IF w # <<>> THEN Order(w[1]) ELSE Len(prevLayer)
         IN IF w # <<>> \/ v = layer[Len(layer)]
            THEN LET scanned == { layer[j] : j \in (scanPos + 1)..i }
                     hit == { e \in edges : /\ e[2] \in scanned
                                            /\ Type1Crosses(e[1], e[2], k0, k1) }
                 IN Type1VisitLayer(prevLayer, layer, i + 1, k1, i,
                        cs \cup { ConflictKey(e[1], e[2]) : e \in hit })
            ELSE Type1VisitLayer(prevLayer, layer, i + 1, k0, scanPos, cs)

findType1Conflicts(L) ==
    UNION { Type1VisitLayer(L[r - 1], L[r], 1, 0, 0, {}) : r \in 2..Len(L) }

\* a < b and a > b of JavaScript where b may be undefined (<<>>): both false then
LtJS(a, b) == b # <<>> /\ a < b[1]

GtJS(a, b) == b # <<>> /\ a > b[1]

\* scan of findType2Conflicts; southPos <= southEnd at every call
scan(south, southPos, southEnd, prevNorthBorder, nextNorthBorder) ==
    LET scanned == { south[i + 1] : i \in southPos..(southEnd - 1) }
        hit == { e \in edges : /\ e[2] \in scanned
                              /\ IsDummy(e[2])
                              /\ IsDummy(e[1])
                              /\ \/ LtJS(Order(e[1]), prevNorthBorder)
                                 \/ GtJS(Order(e[1]), nextNorthBorder) }
    IN { ConflictKey(e[1], e[2]) : e \in hit }

\* visitLayer of findType2Conflicts from index i of south (from 1) on;
\* southLookahead = i - 1
RECURSIVE Type2VisitLayer(_, _, _, _, _, _, _)
Type2VisitLayer(north, south, i, prevNorthPos, nextNorthPos, southPos, cs) ==
    IF i > Len(south) THEN cs
    ELSE LET v == south[i]
             preds == predecessors(v)
             border == node[v].dummy = "border" /\ preds # <<>>
             nextN == IF border THEN <<Order(preds[1])>> ELSE nextNorthPos
             first == IF border
                      THEN scan(south, southPos, i - 1, prevNorthPos, nextN)
                      ELSE {}
             sPos == IF border THEN i - 1 ELSE southPos
             prevN == IF border THEN nextN ELSE prevNorthPos
         IN Type2VisitLayer(north, south, i + 1, prevN, nextN, sPos,
                cs \cup first \cup scan(south, sPos, Len(south), nextN, <<Len(north)>>))

findType2Conflicts(L) ==
    UNION { Type2VisitLayer(L[r - 1], L[r], 1, <<-1>>, <<>>, 0, {}) : r \in 2..Len(L) }

(***************************************************************************)
(* sep and width.                                                          *)
(***************************************************************************)
width(v) == node[v].width

\* delta of sep for the label position of a node: side is -1 for v, the
\* first argument, and 1 for w; 0 where the code leaves delta undefined or 0
LabelDelta(v, side) ==
    LET lp == node[v].labelpos
    IN IF lp = Undefined THEN 0
       ELSE CASE ToLowerCase(lp) = "l" -> side * Half(node[v].width)
              [] ToLowerCase(lp) = "r" -> (0 - side) * Half(node[v].width)
              [] OTHER -> 0

\* SignedDelta with the two branches exchanged
SignedDeltaSwapped(delta, reverseSep) == IF reverseSep THEN 0 - delta ELSE delta

\* sum += reverseSep ? delta : -delta, when delta is not 0
SignedDelta(delta, reverseSep) == IF reverseSep THEN delta ELSE 0 - delta

\* sep with nodeSep for every vertex, dummy or not
sepNodeOnly(nodeSep, edgeSep, reverseSep, v, w) ==
      Half(node[v].width)
    + SignedDelta(LabelDelta(v, -1), reverseSep)
    + Half(nodeSep)
    + Half(nodeSep)
    + Half(node[w].width)
    + SignedDelta(LabelDelta(w, 1), reverseSep)

\* sep(nodeSep, edgeSep, reverseSep)(g, v, w)
sep(nodeSep, edgeSep, reverseSep, v, w) ==
      Half(node[v].width)
    + SignedDelta(LabelDelta(v, -1), reverseSep)
    + Half(IF IsDummy(v) THEN edgeSep ELSE nodeSep)
    + Half(IF IsDummy(w) THEN edgeSep ELSE nodeSep)
    + Half(node[w].width)
    + SignedDelta(LabelDelta(w, 1), reverseSep)

(***************************************************************************)
(* verticalAlignment.                                                      *)
(***************************************************************************)
\* pos[v]: the position of v in its layer of the (adjusted) layering L, from 0
PosOf(L) ==
    [v \in Nodes |->
        LET r == CHOOSE r \in 1..Len(L) : \E i \in 1..Len(L[r]) : L[r][i] = v
        IN (CHOOSE i \in 1..Len(L[r]) : L[r][i] = v) - 1]

\* neighborFn: g.predecessors for vert = "u", g.successors for "d"
neighborFn(vert, v) == IF vert = "u" THEN predecessors(v) ELSE successors(v)

\* _.sortBy(ws, pos)
sortBy(ws, pos) == SortSeq(ws, LAMBDA a, b : pos[a] < pos[b])

\* The indices (from 1) of the medians of n neighbours:
\* floor((n - 1) / 2) .. ceil((n - 1) / 2), from 0, in the code
Medians(n) ==
    IF n % 2 = 1 THEN <<(n + 1) \div 2>> ELSE <<n \div 2, n \div 2 + 1>>

\* CanAlign without the test align[v] === v: v joins both its medians
CanAlignTwice(st, pos, cs, v, w) ==
    /\ st.prevIdx < pos[w]
    /\ ~hasConflict(cs, v, w)

\* CanAlign without the test prevIdx < pos[w]: alignments may cross
CanAlignCrossing(st, pos, cs, v, w) ==
    /\ st.align[v] = v
    /\ ~hasConflict(cs, v, w)

\* The test of lines 175-177
CanAlign(st, pos, cs, v, w) ==
    /\ st.align[v] = v
    /\ st.prevIdx < pos[w]
    /\ ~hasConflict(cs, v, w)

\* The for loop of lines 173-182 over the median indices is
RECURSIVE AlignMedians(_, _, _, _, _, _)
AlignMedians(st, pos, cs, v, ws, is) ==
    IF is = <<>> THEN st
    ELSE LET w == ws[Head(is)]
             st2 == IF CanAlign(st, pos, cs, v, w)
                    THEN [root |-> [st.root EXCEPT ![v] = st.root[w]],
                          align |-> [st.align EXCEPT ![w] = v, ![v] = st.root[w]],
                          prevIdx |-> pos[w]]
                    ELSE st
         IN AlignMedians(st2, pos, cs, v, ws, Tail(is))

\* The inner forEach of lines 168-184 from index i of layer on
RECURSIVE AlignLayer(_, _, _, _, _, _)
AlignLayer(st, pos, cs, vert, layer, i) ==
    IF i > Len(layer) THEN st
    ELSE LET v == layer[i]
             ws == sortBy(neighborFn(vert, v), pos)
             st2 == IF ws = <<>> THEN st
                    ELSE AlignMedians(st, pos, cs, v, ws, Medians(Len(ws)))
         IN AlignLayer(st2, pos, cs, vert, layer, i + 1)

\* The outer forEach of lines 166-185 from layer r of L on
RECURSIVE AlignLayers(_, _, _, _, _, _)
AlignLayers(st, pos, cs, vert, L, r) ==
    IF r > Len(L) THEN st
    ELSE AlignLayers(AlignLayer([st EXCEPT !.prevIdx = -1], pos, cs, vert, L[r], 1),
                     pos, cs, vert, L, r + 1)

verticalAlignment(L, cs, vert) ==
    LET st == AlignLayers([root |-> [v \in Nodes |-> v],
                           align |-> [v \in Nodes |-> v],
                           prevIdx |-> -1],
                          PosOf(L), cs, vert, L, 1)
    IN [root |-> st.root, align |-> st.align]

(***************************************************************************)
(* buildBlockGraph and horizontalCompaction.                               *)
(***************************************************************************)
\* The pairs <<u, v>> with v right after u in a layer of L
AdjacentPairs(L) ==
    UNION { { <<L[r][i], L[r][i + 1]>> : i \in 1..(Len(L[r]) - 1) } : r \in 1..Len(L) }

\* BlockEdgeWeight with Math.min for Math.max
BlockEdgeWeightMin(seps) == Min(seps)

\* Math.max(sepFn(g, v, u), prevMax || 0) folded over the pairs of one block edge
BlockEdgeWeight(seps) == Max(seps \cup {0})

\* The block graph: its nodes and the weight of each edge <<uRoot, vRoot>>
buildBlockGraph(L, root, reverseSep) ==
    LET pairs == AdjacentPairs(L)
        E == { <<root[p[1]], root[p[2]]>> : p \in pairs }
    IN [nodes |-> { root[v] : v \in Nodes },
        edge |-> [e \in E |->
            BlockEdgeWeight({ sep(graph.nodesep, graph.edgesep, reverseSep, p[2], p[1]) :
                              p \in { q \in pairs : <<root[q[1]], root[q[2]]>> = e } })]]

\* The block graph has a directed cycle (a self-loop is one)
RECURSIVE StripSources(_, _)
StripSources(N, E) ==
    IF N = {} THEN TRUE
    ELSE LET S == { n \in N : ~\E e \in E : e[2] = n /\ e[1] \in N }
         IN IF S = {} THEN FALSE ELSE StripSources(N \ S, E)

HasCycle(blockG) == ~StripSources(blockG.nodes, DOMAIN blockG.edge)

\* pass1: the smallest coordinates.  On a block graph without a cycle the
\* depth-first pass leaves in xs[v] the longest weighted path into v.
RECURSIVE pass1(_, _)
pass1(blockG, v) ==
    LET ins == { e \in DOMAIN blockG.edge : e[2] = v }
    IN Max({0} \cup { pass1(blockG, e[1]) + blockG.edge[e] : e \in ins })

\* MayMove without the test of borderType
MayMoveAlways(v, reverseSep) == TRUE

\* node.borderType !== borderType of line 221, for the block root v
MayMove(v, reverseSep) ==
    node[v].borderType # (IF reverseSep THEN "borderLeft" ELSE "borderRight")

\* pass2: each block is visited once (visited[v] goes from true to 2), after
\* the blocks its out-edges lead to
RECURSIVE pass2(_, _, _)
pass2(blockG, v, reverseSep) ==
    LET outs == { e \in DOMAIN blockG.edge : e[1] = v }
        x1 == pass1(blockG, v)
    IN IF outs # {} /\ MayMove(v, reverseSep)
       THEN Max({x1, Min({ pass2(blockG, e[2], reverseSep) - blockG.edge[e] : e \in outs })})
       ELSE x1

\* horizontalCompaction on a block graph without a cycle: xs1 is xs after
\* pass 1 (per block root), xs the map returned
horizontalCompaction(blockG, root, align, reverseSep) ==
    LET xs2 == [b \in blockG.nodes |-> pass2(blockG, b, reverseSep)]
    IN [xs1 |-> [b \in blockG.nodes |-> pass1(blockG, b)],
        xs |-> [v \in blockG.nodes \cup Range(align) |->
                   IF v \in Range(align) THEN xs2[root[v]] ELSE xs2[v]]]

(***************************************************************************)
(* findSmallestWidthAlignment, alignCoordinates, balance.                  *)
(***************************************************************************)
\* The keys of xss in the order positionX inserts them
Keys == <<"ul", "ur", "dl", "dr">>

\* The value minBy computes for one map: _.max(maxVals) - _.min(minVals)
WidthOf(xs) ==
    Max({ xs[v] + Half(width(v)) : v \in DOMAIN xs })
  - Min({ xs[v] - Half(width(v)) : v \in DOMAIN xs })

\* MinByIndex keeping the last of the minima
MinByIndexLast(ws) ==
    CHOOSE i \in 1..Len(ws) :
        /\ \A j \in 1..Len(ws) : ws[i] <= ws[j]
        /\ \A j \in (i + 1)..Len(ws) : ws[j] > ws[i]

\* _.minBy: the first of the candidates, in order, that no candidate beats
MinByIndex(ws) ==
    CHOOSE i \in 1..Len(ws) :
        /\ \A j \in 1..Len(ws) : ws[i] <= ws[j]
        /\ \A j \in 1..(i - 1) : ws[j] > ws[i]

\* The key of the map findSmallestWidthAlignment returns
findSmallestWidthAlignment(xs4) ==
    Keys[MinByIndex([i \in 1..Len(Keys) |-> WidthOf(xs4[Keys[i]])])]

\* delta of line 299 for the alignment key k
AlignDelta(xs, k, alignToMin, alignToMax) ==
    IF k \in {"ul", "dl"}
    THEN alignToMin - Min(Range(xs))
    ELSE alignToMax - Max(Range(xs))

\* xss after alignCoordinates(xss, xss[alignTo])
alignCoordinates(xs4, alignTo) ==
    LET alignToMin == Min(Range(xs4[alignTo]))
        alignToMax == Max(Range(xs4[alignTo]))
    IN [k \in DOMAIN xs4 |->
          IF k = alignTo THEN xs4[k]
          ELSE LET delta == AlignDelta(xs4[k], k, alignToMin, alignToMax)
               IN [v \in DOMAIN xs4[k] |-> xs4[k][v] + delta]]

\* BalanceThrows without the test if (align): toLowerCase of undefined throws
BalanceThrowsUnguarded(xs4, align) == ToLowerCase(align) \notin DOMAIN xs4

\* xss[align.toLowerCase()] is undefined, so that reading [v] of it throws
BalanceThrows(xs4, align) ==
    Truthy(align) /\ ToLowerCase(align) \notin DOMAIN xs4

\* (xs[1] + xs[2]) / 2 of the four values sorted ascending
MiddleMean(vals) ==
    LET xs == SortSeq(vals, LAMBDA a, b : a < b)
    IN Half(xs[2] + xs[3])

\* balance(xss, align) where it does not throw
balance(xs4, align) ==
    [v \in DOMAIN xs4["ul"] |->
        IF Truthy(align)
        THEN xs4[ToLowerCase(align)][v]
        ELSE MiddleMean([i \in 1..Len(Keys) |-> xs4[Keys[i]][v]])]

(***************************************************************************)
(* positionX, step by step, and the exported sep.                          *)
(***************************************************************************)
\* The layering the alignment of key k works on (lines 327-333)
adjustedLayering(k) ==
    LET vertical == IF k \in {"ul", "ur"} THEN layering ELSE Reverse(layering)
    IN IF k \in {"ur", "dr"}
       THEN [r \in 1..Len(vertical) |-> Reverse(vertical[r])]
       ELSE vertical

None == <<>>

\* lines 320-322
FindConflicts ==
    /\ pc = "start"
    /\ conflicts' = findType1Conflicts(layering) \cup findType2Conflicts(layering)
    /\ pc' = "align"
    /\ UNCHANGED <<layering, edges, node, graph, cur, done, xss, smallestWidth,
                   alignArg, result, sepOut>>

\* The key of the alignment the loop of lines 326-345 works on
CurrentKey == Keys[Len(done) + 1]

\* line 336, for the next key
VerticalAlignment ==
    /\ pc = "align"
    /\ cur' = verticalAlignment(adjustedLayering(CurrentKey), conflicts,
                                IF CurrentKey \in {"ul", "ur"} THEN "u" ELSE "d")
    /\ pc' = "compact"
    /\ UNCHANGED <<layering, edges, node, graph, conflicts, done, xss,
                   smallestWidth, alignArg, result, sepOut>>

\* lines 337-343.  On a block graph with a cycle pass1 reads xs of a block
\* it has not placed yet and the coordinates are NaN: the model stops there.
HorizontalCompaction ==
    /\ pc = "compact"
    /\ LET reverseSep == CurrentKey \in {"ur", "dr"}
           blockG == buildBlockGraph(adjustedLayering(CurrentKey), cur.root, reverseSep)
       IN IF HasCycle(blockG)
          THEN /\ done' = Append(done, [root |-> cur.root, align |-> cur.align,
                                        blockG |-> blockG, xs1 |-> <<>>, xs |-> <<>>])
               /\ pc' = "nan"
               /\ UNCHANGED xss
          ELSE LET c == horizontalCompaction(blockG, cur.root, cur.align, reverseSep)
               IN /\ done' = Append(done, [root |-> cur.root, align |-> cur.align,
                                           blockG |-> blockG,
                                           xs1 |-> c.xs1, xs |-> c.xs])
                  /\ xss' = xss @@ (CurrentKey :> [v \in DOMAIN c.xs |->
                                            IF reverseSep THEN 0 - c.xs[v] ELSE c.xs[v]])
                  /\ pc' = IF Len(done) + 1 = Len(Keys) THEN "select" ELSE "align"
    /\ UNCHANGED <<layering, edges, node, graph, conflicts, cur, smallestWidth,
                   alignArg, result, sepOut>>

\* line 347
FindSmallestWidthAlignment ==
    /\ pc = "select"
    /\ smallestWidth' = findSmallestWidthAlignment(xss)
    /\ pc' = "alignCoordinates"
    /\ UNCHANGED <<layering, edges, node, graph, conflicts, cur, done, xss,
                   alignArg, result, sepOut>>

\* line 348
AlignCoordinates ==
    /\ pc = "alignCoordinates"
    /\ xss' = alignCoordinates(xss, smallestWidth)
    /\ pc' = "balance"
    /\ UNCHANGED <<layering, edges, node, graph, conflicts, cur, done,
                   smallestWidth, alignArg, result, sepOut>>

\* The values of g.graph().align the model calls balance with
AlignValues == {Undefined, "", "UL", "ur", "Dl", "dR", "center"}

\* line 349
Balance ==
    /\ pc = "balance"
    /\ \E a \in AlignValues :
          /\ alignArg' = a
          /\ IF BalanceThrows(xss, a)
             THEN pc' = "threw" /\ UNCHANGED result
             ELSE pc' = "done" /\ result' = balance(xss, a)
    /\ UNCHANGED <<layering, edges, node, graph, conflicts, cur, done, xss,
                   smallestWidth, sepOut>>

\* A call of the exported sep on two neighbours of a layer, v right of w
Sep ==
    /\ pc = "start"
    /\ \E p \in AdjacentPairs(layering), reverseSep \in BOOLEAN :
          sepOut' = [reverseSep |-> reverseSep, v |-> p[2], w |-> p[1],
                     value |-> sep(graph.nodesep, graph.edgesep, reverseSep, p[2], p[1])]
    /\ pc' = "sep"
    /\ UNCHANGED <<layering, edges, node, graph, conflicts, cur, done, xss,
                   smallestWidth, alignArg, result>>

\* The largest number of edges of a graph on which the model calls the
\* exported verticalAlignment with every set of conflicts on its edges
MaxCallEdges == 2

\* A call of the exported verticalAlignment on the layering of an alignment
\* key with any set of conflicts between the ends of edges
VerticalAlignmentCall ==
    /\ pc = "start"
    /\ Cardinality(edges) <= MaxCallEdges
    /\ \E k \in Range(Keys), cs \in SUBSET { ConflictKey(e[1], e[2]) : e \in edges } :
          /\ conflicts' = cs
          /\ cur' = verticalAlignment(adjustedLayering(k), cs,
                                      IF k \in {"ul", "ur"} THEN "u" ELSE "d")
    /\ pc' = "verticalAlignment"
    /\ UNCHANGED <<layering, edges, node, graph, done, xss, smallestWidth,
                   alignArg, result, sepOut>>

Next ==
    \/ FindConflicts
    \/ VerticalAlignment
    \/ HorizontalCompaction
    \/ FindSmallestWidthAlignment
    \/ AlignCoordinates
    \/ Balance

\* A node label
Label(w, d, lp, bt) == [width |-> w, dummy |-> d, labelpos |-> lp, borderType |-> bt]

InitLocals ==
    /\ pc = "start"
    /\ conflicts = {}
    /\ cur = None
    /\ done = <<>>
    /\ xss = <<>>
    /\ smallestWidth = Undefined
    /\ alignArg = Undefined
    /\ result = None
    /\ sepOut = None

(***************************************************************************)
(* The inputs.  A graph is a layering of the vertices 1..n, numbered layer *)
(* by layer and left to right, with edges from one layer to the next.      *)
(***************************************************************************)
MaxNodes == 4

MaxOrder == 3

RECURSIVE Sum(_)
Sum(s) == IF s = <<>> THEN 0 ELSE Head(s) + Sum(Tail(s))

\* The layer sizes of the layerings of n vertices with at most maxOrder a layer
RECURSIVE Shapes(_, _)
Shapes(n, maxOrder) ==
    IF n = 0 THEN {<<>>}
    ELSE UNION { { <<k>> \o t : t \in Shapes(n - k, maxOrder) } :
                 k \in 1..(IF n < maxOrder THEN n ELSE maxOrder) }

\* The layering of the vertices 1..Sum(shape) with the layer sizes of shape
LayeringOf(shape) ==
    [r \in 1..Len(shape) |->
        [i \in 1..shape[r] |-> Sum(SubSeq(shape, 1, r - 1)) + i]]

\* The pairs <<v, w>> with v in one layer of L and w in the next
Slots(L) ==
    UNION { { <<L[r][i], L[r + 1][j]>> : i \in 1..Len(L[r]), j \in 1..Len(L[r + 1]) } :
            r \in 1..(Len(L) - 1) }

\* A real node
DefaultLabel == Label(100, Undefined, Undefined, Undefined)

\* The dummy of a long edge
EdgeLabel == Label(0, "edge", Undefined, Undefined)

BorderLabels ==
    { Label(0, "border", Undefined, "borderLeft"),
      Label(0, "border", Undefined, "borderRight") }

SpecialLabels ==
    { Label(40, Undefined, "l", Undefined),
      EdgeLabel,
      Label(60, "edge-label", "R", Undefined) }

\* The labellings of 1..n in which at most one vertex carries a label of specials
OneSpecial(n, specials) ==
    { [v \in 1..n |-> DefaultLabel] } \cup
    { [v \in 1..n |-> IF v = s THEN l ELSE DefaultLabel] : s \in 1..n, l \in specials }

\* Every graph of at most MaxNodes vertices, one of them at most not a
\* plain real node
InitSmall ==
    \E n \in 1..MaxNodes :
    \E shape \in Shapes(n, MaxOrder) :
        /\ layering = LayeringOf(shape)
        /\ edges \in SUBSET Slots(LayeringOf(shape))
        /\ node \in OneSpecial(n, SpecialLabels)
        /\ graph = [nodesep |-> 40, edgesep |-> 20]

TallShapes == {<<1, 2, 2>>, <<2, 2, 1>>, <<2, 2, 2>>, <<1, 2, 2, 1>>, <<2, 2, 2, 1>>}

\* Every dummy of a long edge has one predecessor and one successor
ChainDummies(E, f) ==
    \A v \in DOMAIN f :
        f[v] = EdgeLabel =>
            /\ Cardinality({ e \in E : e[2] = v }) = 1
            /\ Cardinality({ e \in E : e[1] = v }) = 1

\* Taller graphs, of two vertices a layer, as the normalisation of long
\* edges leaves them: real nodes and chains of dummies
InitTall ==
    \E shape \in TallShapes :
        /\ layering = LayeringOf(shape)
        /\ edges \in SUBSET Slots(LayeringOf(shape))
        /\ node \in [1..Sum(shape) -> {DefaultLabel, EdgeLabel}]
        /\ ChainDummies(edges, node)
        /\ graph = [nodesep |-> 40, edgesep |-> 20]

BorderShapes == {<<1, 2, 2>>, <<2, 2, 1>>}

\* Graphs of three layers with one border node
InitBorder ==
    \E shape \in BorderShapes :
        /\ layering = LayeringOf(shape)
        /\ edges \in SUBSET Slots(LayeringOf(shape))
        /\ node \in OneSpecial(Sum(shape), BorderLabels) \ OneSpecial(Sum(shape), {})
        /\ graph = [nodesep |-> 40, edgesep |-> 20]

\* Inputs that break a precondition the specification states: a negative
\* nodesep or edgesep
InitInvalid ==
    \E n \in 1..(MaxNodes - 1) :
    \E shape \in Shapes(n, MaxOrder) :
        /\ layering = LayeringOf(shape)
        /\ edges \in SUBSET Slots(LayeringOf(shape))
        /\ node \in OneSpecial(n, {EdgeLabel})
        /\ graph \in { [nodesep |-> -40, edgesep |-> 20],
                       [nodesep |-> 40, edgesep |-> -20] }

\* Scenario S4 of the specification, all widths 50: the long edge a -> m -> c
\* and the edge b -> d that crosses a -> m, in its two orderings.
\*   a left of b:  a = 1, b = 2, d = 3, m = 4, c = 5
\*   a right of b: b = 1, a = 2, m = 3, d = 4, c = 5
S4Layering == <<<<1, 2>>, <<3, 4>>, <<5>>>>

S4EdgesLeft == {<<1, 4>>, <<4, 5>>, <<2, 3>>}

S4EdgesRight == {<<2, 3>>, <<3, 5>>, <<1, 4>>}

S4Nodes(m) ==
    [v \in 1..5 |-> Label(50, IF v = m THEN "true" ELSE Undefined, Undefined, Undefined)]

S4Graph == [nodesep |-> 50, edgesep |-> 10]

InitS4 ==
    /\ layering = S4Layering
    /\ \/ edges = S4EdgesLeft /\ node = S4Nodes(4)
       \/ edges = S4EdgesRight /\ node = S4Nodes(3)
    /\ graph = S4Graph

\* Scenario S5 of the specification: a = 1 with labelpos "l", b = 2
S5Nodes ==
    <<Label(100, Undefined, "l", Undefined), Label(100, Undefined, Undefined, Undefined)>>

InitS5 ==
    /\ layering = <<<<1, 2>>>>
    /\ edges = {}
    /\ node = S5Nodes
    /\ graph \in { [nodesep |-> 40, edgesep |-> e] : e \in {10, 20} }

Init ==
    /\ InitLocals
    /\ (InitSmall \/ InitTall \/ InitBorder \/ InitInvalid \/ InitS4 \/ InitS5)

\* positionX, step by step
Spec == Init /\ [][Next]_vars

\* The calls of the exported sep
SpecSep == Init /\ [][Sep]_vars

\* The calls of the exported verticalAlignment
SpecVerticalAlignment == Init /\ [][VerticalAlignmentCall]_vars

(***************************************************************************)
(* The arithmetic of the model is exact: every number halved is even.      *)
(***************************************************************************)
NumbersExact ==
    /\ \A v \in Nodes : node[v].width % 2 = 0
    /\ graph.nodesep % 2 = 0 /\ graph.edgesep % 2 = 0
    /\ pc = "balance" =>
          \A v \in Nodes :
              LET xs == SortSeq([i \in 1..Len(Keys) |-> xss[Keys[i]][v]], LAMBDA a, b : a < b)
              IN (xs[2] + xs[3]) % 2 = 0

(***************************************************************************)
(* The claims.                                                             *)
(***************************************************************************)
\* The rank of v: the index of its layer
RankOf(v) == CHOOSE r \in 1..Len(layering) : \E i \in 1..Len(layering[r]) : layering[r][i] = v

\* The key an align value names, in any letter case; Undefined if none
C5_Named(a) ==
    CASE a \in {"UL", "Ul", "uL", "ul"} -> "ul"
      [] a \in {"UR", "Ur", "uR", "ur"} -> "ur"
      [] a \in {"DL", "Dl", "dL", "dl"} -> "dl"
      [] a \in {"DR", "Dr", "dR", "dr"} -> "dr"
      [] OTHER -> Undefined

\* horizontalCompaction has just returned, or met a block graph with a cycle
Compacted == pc \in {"align", "select", "nan"} /\ done # <<>>

\* The alignment built last, and its key
Last == done[Len(done)]

LastKey == Keys[Len(done)]

\* The coordinate map xs keeps every two neighbours of a layer apart
Separated(xs) ==
    \A p \in AdjacentPairs(layering) :
        xs[p[2]] - xs[p[1]] >= sep(graph.nodesep, graph.edgesep, FALSE, p[2], p[1])

\* C1: in each of the maps ul, ur, dl, dr of positionX (after the sign flip,
\* before and after alignCoordinates) and in the map positionX returns, two
\* vertices u, v consecutive in a layer satisfy
\* x(v) - x(u) >= sep(nodesep, edgesep, false)(G, v, u).
C1_Separation ==
    /\ Compacted /\ pc # "nan" => Separated(xss[LastKey])
    /\ pc = "balance" => \A k \in DOMAIN xss : Separated(xss[k])
    /\ pc = "done" => Separated(result)

\* positionX has returned the balanced map of a graph with several pairs of
\* neighbours, and some vertex lies where none of the four alignments put it
C1_Witness ==
    /\ pc = "done"
    /\ alignArg = Undefined
    /\ Cardinality(AdjacentPairs(layering)) >= 2
    /\ \E v \in Nodes : \A k \in DOMAIN xss : result[v] # xss[k][v]

\* The graph is scenario S4
IsS4 ==
    /\ layering = S4Layering
    /\ graph = S4Graph
    /\ \/ edges = S4EdgesLeft /\ node = S4Nodes(4)
       \/ edges = S4EdgesRight /\ node = S4Nodes(3)

S4a == IF edges = S4EdgesLeft THEN 1 ELSE 2

S4m == IF edges = S4EdgesLeft THEN 4 ELSE 3

S4c == S4Layering[3][1]

\* findSmallestWidthAlignment has returned
Selected == pc \in {"alignCoordinates", "balance", "done", "threw"}

\* C2 as stated: in scenario S4 the alignment findSmallestWidthAlignment
\* chooses has x(a) = x(m) = x(c).
C2_Original ==
    IsS4 /\ Selected =>
        /\ xss[smallestWidth][S4a] = xss[smallestWidth][S4m]
        /\ xss[smallestWidth][S4m] = xss[smallestWidth][S4c]

\* C2 amended: in scenario S4 the chosen alignment is ul and has
\* x(m) = x(c); x(a) = x(m) when a is right of b, and x(a) = 0,
\* x(m) = x(c) = 180 when a is left of b.
C2_S4 ==
    IsS4 /\ Selected =>
        /\ smallestWidth = "ul"
        /\ xss[smallestWidth][S4m] = xss[smallestWidth][S4c]
        /\ edges = S4EdgesRight => xss[smallestWidth][S4a] = xss[smallestWidth][S4m]
        /\ edges = S4EdgesLeft =>
              xss[smallestWidth][S4a] = 0 /\ xss[smallestWidth][S4m] = 180

\* Scenario S4 with a left of b, after the choice of the alignment
C2_Witness == IsS4 /\ edges = S4EdgesLeft /\ pc = "alignCoordinates"

\* The graph is scenario S5
IsS5 == layering = <<<<1, 2>>>> /\ node = S5Nodes /\ graph.nodesep = 40

\* C3 as stated: in scenario S5, sep(40, edgesep, false)(G, b, a) = 150 and
\* sep(40, edgesep, true)(G, b, a) = 50.
C3_Original ==
    IsS5 /\ pc = "sep" /\ sepOut.v = 2 /\ sepOut.w = 1 =>
        sepOut.value = (IF sepOut.reverseSep THEN 50 ELSE 150)

\* C3 amended: in scenario S5, sep(40, edgesep, false)(G, b, a) = 90 and
\* sep(40, edgesep, true)(G, b, a) = 190.
C3_S5 ==
    IsS5 /\ pc = "sep" /\ sepOut.v = 2 /\ sepOut.w = 1 =>
        sepOut.value = (IF sepOut.reverseSep THEN 190 ELSE 90)

\* sep was called on (b, a) of scenario S5 with reverseSep
C3_Witness == IsS5 /\ pc = "sep" /\ sepOut.v = 2 /\ sepOut.w = 1 /\ sepOut.reverseSep

\* The width of a map as the claim states it
C4_Width(xs) ==
    LET right == { xs[v] + node[v].width \div 2 : v \in Nodes }
        left == { xs[v] - node[v].width \div 2 : v \in Nodes }
    IN (CHOOSE x \in right : \A y \in right : y <= x)
     - (CHOOSE x \in left : \A y \in left : x <= y)

\* C4: the map findSmallestWidthAlignment returns is one of the four, no
\* wider than any of the four, and strictly narrower than every map before
\* it in the order ul, ur, dl, dr.
C4_Smallest ==
    pc = "alignCoordinates" =>
        /\ smallestWidth \in Range(Keys)
        /\ \A i \in 1..Len(Keys) :
              /\ C4_Width(xss[smallestWidth]) <= C4_Width(xss[Keys[i]])
              /\ \A j \in (i + 1)..Len(Keys) :
                    Keys[j] = smallestWidth =>
                        C4_Width(xss[Keys[i]]) > C4_Width(xss[smallestWidth])

\* findSmallestWidthAlignment returned ur, strictly narrower than ul and as
\* wide as a later map
C4_Witness ==
    /\ pc = "alignCoordinates"
    /\ smallestWidth = "ur"
    /\ \E k \in {"dl", "dr"} : C4_Width(xss[k]) = C4_Width(xss["ur"])

\* The mean of the two middle values of the four coordinates of v
C5_Mean(v) ==
    LET vals == { <<k, xss[k][v]>> : k \in DOMAIN xss }
        \* the pairs with at least two pairs below or equal (ties by key)
        below(p) == { q \in vals : q[2] < p[2] \/ (q[2] = p[2] /\ q[1] \in
                        { Keys[i] : i \in { j \in 1..Len(Keys) :
                            \E m \in 1..Len(Keys) : Keys[m] = p[1] /\ j < m } }) }
        second == CHOOSE p \in vals : Cardinality(below(p)) = 1
        third == CHOOSE p \in vals : Cardinality(below(p)) = 2
    IN (second[2] + third[2]) \div 2

\* C5: balance(xss, align) returns, for every vertex v, xss[a][v] when align
\* names the alignment a in any letter case, and in every other case (align
\* absent, or any other value) the mean of the two middle values of the four.
C5_Balance ==
    pc \in {"done", "threw"} =>
        /\ pc = "done"
        /\ \A v \in Nodes :
              result[v] = (IF C5_Named(alignArg) # Undefined
                           THEN xss[C5_Named(alignArg)][v]
                           ELSE C5_Mean(v))

\* nodesep or edgesep is negative
PreconditionBroken == graph.nodesep < 0 \/ graph.edgesep < 0

RECURSIVE C7_Follow(_, _, _)
C7_Follow(align, v, k) == IF k = 0 THEN v ELSE align[C7_Follow(align, v, k - 1)]

\* The four properties of C7 for the maps a.root and a.align
C7_Holds(a) ==
    \A v \in Nodes :
        LET block == { u \in Nodes : a.root[u] = a.root[v] }
        IN /\ a.root[a.root[v]] = a.root[v]
           /\ a.root[a.align[v]] = a.root[v]
           /\ { C7_Follow(a.align, v, k) : k \in 0..(Cardinality(block) - 1) } = block
           /\ C7_Follow(a.align, v, Cardinality(block)) = v
           /\ \A u \in block : u # v => RankOf(u) # RankOf(v)

\* C7: the maps verticalAlignment returns satisfy root[root[v]] = root[v],
\* root[align[v]] = root[v], align is one cycle through each block, and no
\* two vertices of a block lie on one layer; for the conflicts positionX
\* computes and for every set of conflicts the exported function is called
\* with.
C7_Blocks == pc \in {"compact", "verticalAlignment"} => C7_Holds(cur)

\* verticalAlignment, called with some conflicts, has built a block of two
\* vertices or more
C7_Witness ==
    /\ pc = "verticalAlignment"
    /\ conflicts # {}
    /\ \E v \in Nodes : cur.root[v] # v

\* The blocks reached from the blocks of S by one edge or more of E
RECURSIVE C8_Reach(_, _)
C8_Reach(E, S) ==
    LET next == S \cup { e[2] : e \in { d \in E : d[1] \in S } }
    IN IF next = S THEN S ELSE C8_Reach(E, next)

\* C8: the block graph of each of the four alignments has no directed cycle
\* and no self-loop.
C8_Acyclic ==
    Compacted =>
        LET E == DOMAIN Last.blockG.edge
        IN \A b \in Last.blockG.nodes :
              b \notin C8_Reach(E, { e[2] : e \in { d \in E : d[1] = b } })

\* The four block graphs are built, one of them with three edges or more
\* and a block of two vertices or more
C8_Witness ==
    /\ Compacted
    /\ Cardinality(DOMAIN Last.blockG.edge) >= 3
    /\ \E v \in Nodes : Last.root[v] # v

\* The border type pass 2 of alignment i leaves in place
C9_Avoided == IF LastKey \in {"ur", "dr"} THEN "borderLeft" ELSE "borderRight"

\* C9 as stated: every vertex that is a border on the avoided side has the
\* coordinate pass 1 gave its block, root of its block or not.
C9_Original ==
    Compacted =>
        \A v \in DOMAIN Last.xs :
            node[v].borderType = C9_Avoided => Last.xs[v] = Last.xs1[Last.root[v]]

\* C9 amended: every vertex whose block has for root a border on the avoided
\* side has the coordinate pass 1 gave its block.
C9_RootPinned ==
    Compacted =>
        \A v \in DOMAIN Last.xs :
            node[Last.root[v]].borderType = C9_Avoided =>
                Last.xs[v] = Last.xs1[Last.root[v]]

\* A block whose root is a border on the avoided side has room on its right:
\* pass 2 would move any other block there
C9_Witness ==
    /\ Compacted
    /\ \E b \in DOMAIN Last.xs1 :
          LET outs == { e \in DOMAIN Last.blockG.edge : e[1] = b }
          IN /\ node[b].borderType = C9_Avoided
             /\ outs # {}
             /\ \A e \in outs : Last.xs[e[2]] - Last.blockG.edge[e] > Last.xs1[b]

\* The inner segments: the edges between two dummies
C10_Inner == { e \in edges : IsDummy(e[1]) /\ IsDummy(e[2]) }

\* The condition of C10 on the graph
C10_Pre ==
    /\ \A v \in Nodes :
          IsDummy(v) =>
              /\ Cardinality({ e \in edges : e[2] = v }) = 1
              /\ Cardinality({ e \in edges : e[1] = v }) = 1
              /\ node[v].dummy # "border"
    /\ \A e \in C10_Inner : \A f \in C10_Inner :
          RankOf(e[1]) = RankOf(f[1]) =>
              (Order(e[1]) - Order(f[1])) * (Order(e[2]) - Order(f[2])) >= 0

\* C10: on a graph whose dummies have one predecessor and one successor,
\* none a border, and whose inner segments do not cross, every inner
\* segment (u, v) has root[u] = root[v] and x(u) = x(v) in each of the four
\* alignments.
C10_InnerStraight ==
    Compacted /\ C10_Pre =>
        \A e \in C10_Inner :
            /\ Last.root[e[1]] = Last.root[e[2]]
            /\ pc # "nan"
            /\ xss[LastKey][e[1]] = xss[LastKey][e[2]]

\* The four alignments are built on such a graph with an inner segment that
\* an edge crosses
C10_Witness ==
    /\ C10_Pre
    /\ Compacted
    /\ C10_Inner # {}
    /\ \E e \in C10_Inner : \E c \in conflicts :
          /\ RankOf(c[1]) = RankOf(e[1])
          /\ (Order(c[1]) - Order(e[1])) * (Order(c[2]) - Order(e[2])) < 0

====
